---------------------------- MODULE Spec2Model ----------------------------
(***************************************************************************)
(* Model of streamer.py: the NetCDF -> COG batch converter (convert_cog,   *)
(* COGNetCDF, COGProductConfiguration) and the upload watcher (upload).    *)
(*                                                                         *)
(* A string is a sequence of one-character strings.  The filesystem under  *)
(* the output root is the four variables working_dir, ready_for_upload_dir,*)
(* failed_dir and complete_dir.                                            *)
(***************************************************************************)
EXTENDS Integers, Sequences, FiniteSets, TLC

(***************************************************************************)
(* Bounds of the model                                                     *)
(***************************************************************************)
\* poll cycles the watcher is followed for
MaxCycles == 2
\* a long delay (seconds) an external command or a sleep may take
LongDelay == 200
\* invocations of netcdf_to_cog, or of convert_cog, over the same input
MaxRuns == 2
\* calls of one method of COGProductConfiguration with the same arguments
MaxCalls == 2

(***************************************************************************)
(* Strings                                                                 *)
(***************************************************************************)
Digits == {"0", "1", "2", "3", "4", "5", "6", "7", "8", "9"}

RECURSIVE DigitRun(_, _)
\* length of the longest run of digits of s that starts at position j
DigitRun(s, j) ==
    IF j <= Len(s) /\ s[j] \in Digits THEN 1 + DigitRun(s, j + 1) ELSE 0

RECURSIVE LastSlash(_, _)
\* position of the last "/" of s at or before position j, 0 when there is none
LastSlash(s, j) ==
    IF j = 0 THEN 0 ELSE IF s[j] = "/" THEN j ELSE LastSlash(s, j - 1)

\* the whole path taken for its base name
basename_whole(path) == path

\* os.path.basename
basename(path) == SubSeq(path, LastSlash(path, Len(path)) + 1, Len(path))

(***************************************************************************)
(* Templates and the patterns compiled from them                           *)
(*                                                                         *)
(* A template is a sequence of tokens: one-character strings and the       *)
(* placeholders "{x}", "{y}", "{time}" and "{}".                           *)
(***************************************************************************)
Placeholders == {"{x}", "{y}", "{time}", "{}"}

\* what re.compile makes of a character the replace() calls left in place:
\* "." matches any character, the other characters of the model's alphabet
\* (letters, digits, "_", "-") match themselves
ReChar(c) == IF c = "." THEN [kind |-> "any", c |-> c, name |-> ""]
                        ELSE [kind |-> "lit", c |-> c, name |-> ""]

\* (?P<name>-?[0-9]*)
ReGroup(n) == [kind |-> "group", c |-> "", name |-> n]

\* [0-9]*
ReDigits == [kind |-> "digits", c |-> "", name |-> ""]

\* the pattern _extract_x_y compiles: {time} and {} are plain digit runs
PatternXY(template) ==
    [i \in 1..Len(template) |->
        CASE template[i] = "{x}"    -> ReGroup("x")
          [] template[i] = "{y}"    -> ReGroup("y")
          [] template[i] = "{time}" -> ReDigits
          [] template[i] = "{}"     -> ReDigits
          [] OTHER                  -> ReChar(template[i])]

\* the pattern _extract_x_y_time compiles: {time} is a named group too
PatternXYTime(template) ==
    [i \in 1..Len(template) |->
        CASE template[i] = "{x}"    -> ReGroup("x")
          [] template[i] = "{y}"    -> ReGroup("y")
          [] template[i] = "{time}" -> ReGroup("time")
          [] template[i] = "{}"     -> ReDigits
          [] OTHER                  -> ReChar(template[i])]

NoGroups == [x |-> <<>>, y |-> <<>>, time |-> <<>>]
NoMatch == [ok |-> FALSE, groups |-> NoGroups]

RECURSIVE ReMatch(_, _, _, _, _)
RECURSIVE ReTryLen(_, _, _, _, _, _, _)

\* re.match of pattern elements re[i..] against s from position j: anchored
\* at the start only, greedy with backtracking; g holds the groups so far
ReMatch(re, i, s, j, g) ==
    IF i > Len(re) THEN [ok |-> TRUE, groups |-> g]
    ELSE LET e == re[i] IN
      CASE e.kind = "lit" ->
             IF j <= Len(s) /\ s[j] = e.c THEN ReMatch(re, i + 1, s, j + 1, g)
             ELSE NoMatch
        [] e.kind = "any" ->
             IF j <= Len(s) THEN ReMatch(re, i + 1, s, j + 1, g) ELSE NoMatch
        [] e.kind = "digits" ->
             ReTryLen(re, i, s, j, j, DigitRun(s, j), g)
        [] OTHER ->
             LET signed == IF j <= Len(s) /\ s[j] = "-"
                           THEN ReTryLen(re, i, s, j, j + 1, DigitRun(s, j + 1), g)
                           ELSE NoMatch
             IN  IF signed.ok THEN signed
                 ELSE ReTryLen(re, i, s, j, j, DigitRun(s, j), g)

\* element re[i] takes s[start .. from+k-1] (k digits from position from);
\* on failure of the rest it gives one digit back
ReTryLen(re, i, s, start, from, k, g) ==
    LET g2 == IF re[i].kind = "group"
              THEN [g EXCEPT ![re[i].name] = SubSeq(s, start, from + k - 1)]
              ELSE g
        rest == ReMatch(re, i + 1, s, from + k, g2)
    IN  IF rest.ok THEN rest
        ELSE IF k = 0 THEN NoMatch
        ELSE ReTryLen(re, i, s, start, from, k - 1, g)

\* the names of the groups of a pattern (the keys of groupdict())
GroupNames(re) == {re[i].name : i \in {k \in 1..Len(re) : re[k].kind = "group"}}

\* _extract_x_y: ok = FALSE stands for the RuntimeError
extract_x_y(item, template) ==
    LET re == PatternXY(template)
        values == ReMatch(re, 1, basename(item), 1, NoGroups)
    IN  IF values.ok /\ {"x", "y"} \subseteq GroupNames(re)
        THEN [ok |-> TRUE, x |-> values.groups.x, y |-> values.groups.y,
              time |-> <<>>]
        ELSE [ok |-> FALSE, x |-> <<>>, y |-> <<>>, time |-> <<>>]

\* _extract_x_y_time
extract_x_y_time(item, template) ==
    LET re == PatternXYTime(template)
        values == ReMatch(re, 1, basename(item), 1, NoGroups)
    IN  IF values.ok /\ {"x", "y", "time"} \subseteq GroupNames(re)
        THEN [ok |-> TRUE, x |-> values.groups.x, y |-> values.groups.y,
              time |-> values.groups.time]
        ELSE [ok |-> FALSE, x |-> <<>>, y |-> <<>>, time |-> <<>>]

(***************************************************************************)
(* datetime.fromtimestamp(dt) ... strftime('%Y%m%d%H%M%S'), with UTC as    *)
(* the local time zone: seconds since the epoch to a 14-digit string       *)
(***************************************************************************)
DigitChar(d) == <<"0", "1", "2", "3", "4", "5", "6", "7", "8", "9">>[d + 1]

RECURSIVE Pad(_, _)
\* n in decimal, zero-padded to width w (the low w digits of n)
Pad(n, w) == IF w = 0 THEN <<>> ELSE Append(Pad(n \div 10, w - 1), DigitChar(n % 10))

\* the civil date of a day number (days since 1970-01-01)
CivilFromDays(days) ==
    LET z == days + 719468
        era == z \div 146097
        doe == z - era * 146097
        yoe == (doe - doe \div 1460 + doe \div 36524 - doe \div 146096) \div 365
        doy == doe - (365 * yoe + yoe \div 4 - yoe \div 100)
        mp == (5 * doy + 2) \div 153
        d == doy - (153 * mp + 2) \div 5 + 1
        m == IF mp < 10 THEN mp + 3 ELSE mp - 9
        y == yoe + era * 400 + (IF m <= 2 THEN 1 ELSE 0)
    IN  [year |-> y, month |-> m, day |-> d]

strftime(dt) ==
    LET date == CivilFromDays(dt \div 86400)
        secs == dt % 86400
    IN  Pad(date.year, 4) \o Pad(date.month, 2) \o Pad(date.day, 2)
        \o Pad(secs \div 3600, 2) \o Pad((secs % 3600) \div 60, 2) \o Pad(secs % 60, 2)

(***************************************************************************)
(* The product configuration and the input files                          *)
(***************************************************************************)
\* a product description of the shape of DEFAULT_CONFIG's timed products
cfg ==
    [time_type     |-> "timed",
     src_template  |-> <<"T", "_", "{x}", "_", "{y}", "_", "{time}", "_", "v", "{}", ".", "n", "c">>,
     dest_template |-> <<"T", "_", "{x}", "_", "{y}", "_", "{time}">>,
     aws_dir       |-> <<"f", "c">>,
     bucket        |-> <<"s", "3", ":", "b">>]

\* dataset.GetSubDatasets() by band name: the last subdataset is the
\* 'dataset' variable that carries the metadata records
subdatasets == <<"BS", "PV", "dataset">>

\* the bands _dataset_to_cog loops over: subdatasets[:-1]
BandsOf(subs) == SubSeq(subs, 1, Len(subs) - 1)

BandNames == {subdatasets[i] : i \in 1..Len(subdatasets)}

\* d/T_3_-40_2018_v1.nc, two time slices
FileA == [name  |-> <<"d", "/", "T", "_", "3", "_", "-", "4", "0", "_",
                      "2", "0", "1", "8", "_", "v", "1", ".", "n", "c">>,
          times |-> <<1514862245, 1517630706>>]
\* d/T_3_-40_2018_v2.nc, another version of the same tile: its time slice is
\* FileA's first
FileB == [name  |-> <<"d", "/", "T", "_", "3", "_", "-", "4", "0", "_",
                      "2", "0", "1", "8", "_", "v", "2", ".", "n", "c">>,
          times |-> <<1514862245>>]
\* d/X_3.nc does not match the source template
FileC == [name  |-> <<"d", "/", "X", "_", "3", ".", "n", "c">>,
          times |-> <<1514862245>>]
\* d/T_9_-39_2018_v1.nc, one time slice
FileD == [name  |-> <<"d", "/", "T", "_", "9", "_", "-", "3", "9", "_",
                      "2", "0", "1", "8", "_", "v", "1", ".", "n", "c">>,
          times |-> <<1514862245>>]
\* d/T_3_-40_2018_v3.nc, a third version of the same tile with the same one
\* time slice as FileB
FileE == [name  |-> <<"d", "/", "T", "_", "3", "_", "-", "4", "0", "_",
                      "2", "0", "1", "8", "_", "v", "3", ".", "n", "c">>,
          times |-> <<1514862245>>]

Files == {FileA, FileB, FileC, FileD, FileE}

\* the file lists convert_cog is run on
InputLists ==
    {<<FileD>>, <<FileA, FileD>>, <<FileC, FileD>>, <<FileD, FileC>>,
     <<FileA, FileB>>, <<FileB, FileA>>}

RECURSIVE Format(_, _)
\* str.format(x=.., y=.., time=..) of a template
Format(template, v) ==
    IF template = <<>> THEN <<>>
    ELSE LET t == Head(template)
             piece == CASE t = "{x}"    -> v.x
                        [] t = "{y}"    -> v.y
                        [] t = "{time}" -> v.time
                        [] OTHER        -> <<t>>
         IN  piece \o Format(Tail(template), v)

\* get_unstacked_names(netcdf_file) with year = month = None, as
\* netcdf_to_cog calls it: ok = FALSE stands for the RuntimeError
get_unstacked_names(c, file) ==
    LET xy == extract_x_y(file.name, c.src_template)
    IN  IF ~xy.ok THEN [ok |-> FALSE, names |-> <<>>]
        ELSE IF c.time_type = "flat"
        THEN [ok |-> TRUE,
              names |-> <<Format(c.dest_template, [x |-> xy.x, y |-> xy.y, time |-> <<>>])>>]
        ELSE [ok |-> TRUE,
              names |-> [i \in 1..Len(file.times) |->
                          Format(c.dest_template,
                                 [x |-> xy.x, y |-> xy.y, time |-> strftime(file.times[i])])]]

\* Python's s[a:b]
Slice(s, a, b) == SubSeq(s, a + 1, IF b < Len(s) THEN b ELSE Len(s))

\* aws_dir with the month taken for the day
aws_dir_month_as_day(c, item) ==
    IF c.time_type = "flat"
    THEN LET v == extract_x_y(item, c.dest_template)
         IN  [ok |-> v.ok, dir |-> <<"x", "_">> \o v.x \o <<"/", "y", "_">> \o v.y]
    ELSE IF c.time_type = "timed"
    THEN LET v == extract_x_y_time(item, c.dest_template)
         IN  [ok |-> v.ok,
              dir |-> <<"x", "_">> \o v.x \o <<"/", "y", "_">> \o v.y \o <<"/">>
                      \o Slice(v.time, 0, 4) \o <<"/">> \o Slice(v.time, 4, 6)
                      \o <<"/">> \o Slice(v.time, 4, 6)]
    ELSE [ok |-> FALSE, dir |-> <<>>]

\* aws_dir(item): ok = FALSE stands for the RuntimeError
aws_dir(c, item) ==
    IF c.time_type = "flat"
    THEN LET v == extract_x_y(item, c.dest_template)
         IN  [ok |-> v.ok, dir |-> <<"x", "_">> \o v.x \o <<"/", "y", "_">> \o v.y]
    ELSE IF c.time_type = "timed"
    THEN LET v == extract_x_y_time(item, c.dest_template)
         IN  [ok |-> v.ok,
              dir |-> <<"x", "_">> \o v.x \o <<"/", "y", "_">> \o v.y \o <<"/">>
                      \o Slice(v.time, 0, 4) \o <<"/">> \o Slice(v.time, 4, 6)
                      \o <<"/">> \o Slice(v.time, 6, 8)]
    ELSE [ok |-> FALSE, dir |-> <<>>]

\* aws_destination(item)
aws_destination(c, item) ==
    LET d == aws_dir(c, item)
    IN  [ok |-> d.ok, dir |-> c.bucket \o <<"/">> \o c.aws_dir \o <<"/">> \o d.dir]

\* get_unstacked_names of each input file
NamesOf == [f \in Files |-> get_unstacked_names(cfg, f)]

\* every dataset prefix the input files can give
AllPrefixes ==
    UNION {{NamesOf[f].names[i] : i \in 1..Len(NamesOf[f].names)} : f \in Files}

\* aws_dir of each dataset prefix
AwsDirOf == [p \in AllPrefixes |-> aws_dir(cfg, p)]

(***************************************************************************)
(* The filesystem                                                          *)
(*                                                                         *)
(* A dataset directory holds its metadata document (prefix.yaml), one      *)
(* band file per band (prefix_band.tif), GDAL's .xml sidecars and the      *)
(* marker upload-destination.txt.  yaml and bands count the times the file *)
(* was written (0: no such file), which stands for its modification state. *)
(***************************************************************************)
NoDir == [exists |-> FALSE, yaml |-> 0, bands |-> [b \in BandNames |-> 0],
          xml |-> FALSE, hasMarker |-> FALSE, marker |-> <<>>]

\* what mkdir makes
EmptyDir == [NoDir EXCEPT !.exists = TRUE]

IsEmptyDir(d) == d = EmptyDir

\* FAILED and COMPLETE: a directory of dataset directories (entries) that may
\* not exist; own is the dataset whose directory was renamed to this very path
\* and ownName its name
NoTarget == [exists |-> FALSE, own |-> NoDir, ownName |-> <<>>,
             entries |-> [n \in AllPrefixes |-> NoDir]]
EmptyTarget == [NoTarget EXCEPT !.exists = TRUE]

VARIABLES
    \* convert_cog
    filenames,            \* the input files, in the order given
    num_procs,            \* the size of the worker pool
    futures,              \* one per input file: the worker's position and result
    sched,                \* the position of convert_cog's result loop
    runs,                 \* invocations over the same input so far
    snapshot,             \* WORKING as the previous invocation left it
    \* the output root
    working_dir, ready_for_upload_dir, failed_dir, complete_dir,
    \* upload
    retain_datasets,      \* --retain-datasets
    upload_pc,            \* the position of the watcher
    datasets_ready,       \* the rest of this cycle's listing
    sync_result,          \* how the sync of the dataset at hand ended
    time_last_upload,     \* None or a time
    now,                  \* the wall clock, in seconds
    cycles,               \* poll cycles completed
    history,              \* per dataset: what the watcher did with it last
    time_last_success,    \* None or the time a dataset was last synced and disposed of
    ever_ready,           \* some listing so far held an entry
    \* COGProductConfiguration called on its own
    call,                 \* the method called and its arguments
    result                \* what each call made so far returned

convVars == <<filenames, num_procs, futures, sched, runs, snapshot>>
fsVars == <<working_dir, ready_for_upload_dir, failed_dir, complete_dir>>
upVars == <<retain_datasets, upload_pc, datasets_ready, sync_result, time_last_upload,
            now, cycles, history, time_last_success, ever_ready>>
fnVars == <<call, result>>
vars == <<convVars, fsVars, upVars, fnVars>>

\* Python's None for a time
None == -1

(***************************************************************************)
(* COGNetCDF.netcdf_to_cog, run by a worker of the pool for one input file *)
(***************************************************************************)
NewFuture == [state |-> "pending", idx |-> 0, step |-> "", band |-> 0,
              generated |-> <<>>, tried |-> {}, failed |-> {}, inflight |-> FALSE,
              consumed |-> FALSE]

Tasks == DOMAIN futures

prefix_names(t) == NamesOf[filenames[t]].names

\* the prefix the worker of future t is at
CurPrefix(t) == prefix_names(t)[futures[t].idx]

Raised(f) == [f EXCEPT !.state = "raised", !.idx = 0, !.step = "", !.band = 0,
                         !.inflight = FALSE]

\* the pool hands the next queued file to a free worker, which resolves the
\* prefix names and opens the file
WorkerBegin(t) ==
    /\ futures[t].state = "pending"
    /\ \A u \in Tasks : u < t => futures[u].state # "pending"
    /\ Cardinality({u \in Tasks : futures[u].state = "running"}) < num_procs
    /\ LET r == NamesOf[filenames[t]] IN
         futures' = [futures EXCEPT ![t] =
            IF ~r.ok THEN Raised(@)
            ELSE IF Len(r.names) = 0 THEN [@ EXCEPT !.state = "done"]
            ELSE [@ EXCEPT !.state = "running", !.idx = 1, !.step = "mkdir"]]
    /\ UNCHANGED <<fnVars, filenames, num_procs, sched, runs, snapshot, fsVars, upVars>>

\* dest.mkdir(exist_ok=True)
WorkerMkdir(t) ==
    /\ futures[t].state = "running" /\ futures[t].step = "mkdir"
    /\ working_dir' = [working_dir EXCEPT ![CurPrefix(t)] =
                          IF @.exists THEN @ ELSE EmptyDir]
    /\ futures' = [futures EXCEPT ![t].step = "yaml"]
    /\ UNCHANGED <<fnVars, filenames, num_procs, sched, runs, snapshot,
                   ready_for_upload_dir, failed_dir, complete_dir, upVars>>

\* _dataset_to_yaml: the document is written whether or not it exists
dataset_to_yaml(dir) == [dir EXCEPT !.yaml = @ + 1]

\* the directory the write of the worker of future t goes to when the
\* dataset directory was renamed into TO_UPLOAD while the worker was on it and
\* the write had begun before the rename (the open file, or the working
\* directory of the command, follows the directory)
Followed(t) == futures[t].inflight /\ ready_for_upload_dir[CurPrefix(t)].exists

\* open(yaml_fname, 'w') fails when the directory is gone; a file opened
\* before the directory was renamed is written where the directory is now
WorkerYaml(t) ==
    /\ futures[t].state = "running" /\ futures[t].step = "yaml"
    /\ \/ /\ working_dir[CurPrefix(t)].exists /\ ~Followed(t)
          /\ working_dir' = [working_dir EXCEPT ![CurPrefix(t)] = dataset_to_yaml(@)]
          /\ futures' = [futures EXCEPT ![t].step = "cog", ![t].band = 1,
                                        ![t].inflight = FALSE]
          /\ UNCHANGED ready_for_upload_dir
       \/ /\ Followed(t)
          /\ ready_for_upload_dir' =
                [ready_for_upload_dir EXCEPT ![CurPrefix(t)] = dataset_to_yaml(@)]
          /\ futures' = [futures EXCEPT ![t].step = "cog", ![t].band = 1,
                                        ![t].inflight = FALSE]
          /\ UNCHANGED working_dir
       \/ /\ ~working_dir[CurPrefix(t)].exists
          /\ futures' = [futures EXCEPT ![t] = Raised(@)]
          /\ UNCHANGED <<working_dir, ready_for_upload_dir>>
    /\ UNCHANGED <<fnVars, filenames, num_procs, sched, runs, snapshot,
                   failed_dir, complete_dir, upVars>>

\* one band of _dataset_to_cog: extract, add overviews and re-encode into the
\* dataset directory; the band file is written whether or not it exists.
\* ok = FALSE: one of the three commands failed, which is logged
band_to_cog(dir, band, ok) ==
    IF ok /\ dir.exists
    THEN [dir EXCEPT !.bands[band] = @ + 1, !.xml = TRUE]
    ELSE dir

\* the loop of _dataset_to_cog with its try/except around one band, the
\* except leaving the loop
next_band_abort(band, n, ok) == IF ~ok \/ band = n THEN 0 ELSE band + 1

\* the band the loop of _dataset_to_cog goes to after band number `band` of n,
\* 0 after the last: the except clause is inside the loop, so a failed band
\* is followed by the next one
next_band(band, n, ok) == IF band = n THEN 0 ELSE band + 1

WorkerBand(t, ok) ==
    /\ futures[t].state = "running" /\ futures[t].step = "cog"
    /\ LET p == CurPrefix(t)
           bands == BandsOf(subdatasets)
           band == bands[futures[t].band]
           done == ok /\ (working_dir[p].exists \/ Followed(t))
           next == next_band(futures[t].band, Len(bands), done)
       IN  /\ IF Followed(t)
              THEN /\ ready_for_upload_dir' =
                         [ready_for_upload_dir EXCEPT ![p] = band_to_cog(@, band, ok)]
                   /\ UNCHANGED working_dir
              ELSE /\ working_dir' = [working_dir EXCEPT ![p] = band_to_cog(@, band, ok)]
                   /\ UNCHANGED ready_for_upload_dir
           /\ futures' = [futures EXCEPT
                 ![t].tried = @ \cup {<<p, band>>},
                 ![t].failed = IF done THEN @ ELSE @ \cup {<<p, band>>},
                 ![t].inflight = FALSE,
                 ![t].band = next,
                 ![t].step = IF next = 0 THEN "clean" ELSE "cog"]
    /\ UNCHANGED <<fnVars, filenames, num_procs, sched, runs, snapshot,
                   failed_dir, complete_dir, upVars>>

\* the .xml files are removed and the prefix is recorded; after the last
\* prefix the worker returns generated_datasets
WorkerClean(t) ==
    /\ futures[t].state = "running" /\ futures[t].step = "clean"
    /\ LET p == CurPrefix(t)
           last == futures[t].idx = Len(prefix_names(t))
           gen == IF \E i \in 1..Len(futures[t].generated) : futures[t].generated[i] = p
                  THEN futures[t].generated
                  ELSE Append(futures[t].generated, p)
       IN  /\ working_dir' = [working_dir EXCEPT ![p].xml = FALSE]
           /\ futures' = [futures EXCEPT ![t] =
                 [@ EXCEPT !.generated = gen,
                           !.state = IF last THEN "done" ELSE "running",
                           !.idx = IF last THEN 0 ELSE @ + 1,
                           !.step = IF last THEN "" ELSE "mkdir"]]
    /\ UNCHANGED <<fnVars, filenames, num_procs, sched, runs, snapshot,
                   ready_for_upload_dir, failed_dir, complete_dir, upVars>>

(***************************************************************************)
(* convert_cog: the loop over the completed futures                        *)
(***************************************************************************)
\* where the loop goes once the futures in `done` have been drained
AfterFuture(fs) == IF \A u \in DOMAIN fs : fs[u].consumed THEN "done" ELSE "wait"

\* as_completed yields a finished future; future.result() re-raises what the
\* worker raised, which nothing in convert_cog catches
SchedResult(t) ==
    /\ sched.pc = "wait"
    /\ futures[t].state \in {"done", "raised"} /\ ~futures[t].consumed
    /\ futures' = [futures EXCEPT ![t].consumed = TRUE]
    /\ sched' = IF futures[t].state = "raised"
                THEN [pc |-> "raised", cur |-> 0, k |-> 0]
                ELSE IF Len(futures[t].generated) = 0
                THEN [pc |-> AfterFuture(futures'), cur |-> 0, k |-> 0]
                ELSE [pc |-> "marker", cur |-> t, k |-> 1]
    /\ UNCHANGED <<fnVars, filenames, num_procs, runs, snapshot, fsVars, upVars>>

\* the text convert_cog writes into the marker
destination_url(prefix) == AwsDirOf[prefix]

\* write_text with the write lost
write_text_lost(dir, text) == dir

\* (dataset_directory / 'upload-destination.txt').write_text(destination_url)
write_text(dir, text) == [dir EXCEPT !.hasMarker = TRUE, !.marker = text]

SchedMarker ==
    /\ sched.pc = "marker"
    /\ LET prefix == futures[sched.cur].generated[sched.k]
           url == destination_url(prefix)
       IN  IF url.ok /\ working_dir[prefix].exists
           THEN /\ working_dir' = [working_dir EXCEPT ![prefix] = write_text(@, url.dir)]
                /\ sched' = [sched EXCEPT !.pc = "rename"]
           ELSE /\ sched' = [pc |-> "raised", cur |-> 0, k |-> 0]
                /\ UNCHANGED working_dir
    /\ UNCHANGED <<fnVars, filenames, num_procs, futures, runs, snapshot,
                   ready_for_upload_dir, failed_dir, complete_dir, upVars>>

\* the worker of future t is at a write into the dataset directory of prefix:
\* the metadata document or a band
OnDirectory(t, prefix) ==
    /\ futures[t].state = "running" /\ futures[t].step \in {"yaml", "cog"}
    /\ CurPrefix(t) = prefix

\* whether os.rename of directory src onto the path holding dst succeeds
rename_ok(src, dst) == src.exists /\ (~dst.exists \/ IsEmptyDir(dst))

\* dataset_directory.rename(ready_for_upload_dir / prefix)
SchedRename ==
    /\ sched.pc = "rename"
    /\ LET prefix == futures[sched.cur].generated[sched.k]
           last == sched.k = Len(futures[sched.cur].generated)
       IN  IF rename_ok(working_dir[prefix], ready_for_upload_dir[prefix])
           THEN /\ ready_for_upload_dir' =
                      [ready_for_upload_dir EXCEPT ![prefix] = working_dir[prefix]]
                /\ working_dir' = [working_dir EXCEPT ![prefix] = NoDir]
                /\ futures' = [t \in Tasks |->
                      IF OnDirectory(t, prefix) THEN [futures[t] EXCEPT !.inflight = TRUE]
                      ELSE futures[t]]
                /\ sched' = IF last
                            THEN [pc |-> AfterFuture(futures), cur |-> 0, k |-> 0]
                            ELSE [sched EXCEPT !.pc = "marker", !.k = @ + 1]
           ELSE /\ sched' = [pc |-> "raised", cur |-> 0, k |-> 0]
                /\ UNCHANGED <<working_dir, ready_for_upload_dir, futures>>
    /\ UNCHANGED <<fnVars, filenames, num_procs, runs, snapshot,
                   failed_dir, complete_dir, upVars>>


(***************************************************************************)
(* upload: the watcher of TO_UPLOAD                                        *)
(***************************************************************************)
\* timedelta(minutes=5), in seconds
max_wait_time_without_upload == 300

\* time.sleep(1)
PollInterval == 1

\* --upload-destination
upload_destination == <<"s", "3", ":", "u">>

\* the byte value of the characters of the model's alphabet
Ord(c) ==
    CASE c = "-" -> 45 [] c = "." -> 46 [] c = "/" -> 47
      [] c \in Digits -> 48 + (CHOOSE d \in 0..9 : DigitChar(d) = c)
      [] c = ":" -> 58 [] c = "T" -> 84 [] c = "X" -> 88 [] c = "_" -> 95
      [] OTHER -> 97

RECURSIVE StrLess(_, _)
\* a sorts before b bytewise
StrLess(a, b) ==
    IF b = <<>> THEN FALSE
    ELSE IF a = <<>> THEN TRUE
    ELSE IF Head(a) = Head(b) THEN StrLess(Tail(a), Tail(b))
    ELSE Ord(Head(a)) < Ord(Head(b))

RECURSIVE Sorted(_)
\* the names of S in the order ls prints them
Sorted(S) ==
    IF S = {} THEN <<>>
    ELSE LET first == CHOOSE a \in S : \A b \in S \ {a} : StrLess(a, b)
         IN  <<first>> \o Sorted(S \ {first})

\* check_output(['ls', ready_for_upload_dir]).decode('utf-8').splitlines()
ls(dir) == Sorted({n \in DOMAIN dir : dir[n].exists})

\* f.read().splitlines()[0]: ok = FALSE stands for the IndexError on an
\* empty file
RECURSIVE UpToNewline(_)
UpToNewline(text) ==
    IF text = <<>> \/ Head(text) = "\n" THEN <<>>
    ELSE <<Head(text)>> \o UpToNewline(Tail(text))

first_line(text) == [ok |-> text # <<>>, line |-> UpToNewline(text)]

\* mv -f -- src_path target_dir, for the dataset directory src named name.
\* cmd = FALSE: the command fails for a reason outside the model (permissions,
\* a full disk).  A target that does not exist is created by renaming the
\* dataset directory to it; an existing target takes the dataset as an entry,
\* unless a non-empty entry of that name is in the way
mv(src, target, name, cmd) ==
    IF ~cmd \/ ~src.exists THEN [ok |-> FALSE, target |-> target]
    ELSE IF ~target.exists
    THEN [ok |-> TRUE,
          target |-> [target EXCEPT !.exists = TRUE, !.own = src, !.ownName = name]]
    ELSE IF target.entries[name].exists /\ ~IsEmptyDir(target.entries[name])
    THEN [ok |-> FALSE, target |-> target]
    ELSE [ok |-> TRUE, target |-> [target EXCEPT !.entries[name] = src]]

\* the idle test with the timer running from the start of the watcher
idle_expired_since_start(last, t) ==
    t - (IF last = None THEN 0 ELSE last) > max_wait_time_without_upload

\* the idle test at the end of a poll cycle: lines 520-523
idle_expired(last, t) == last # None /\ t - last > max_wait_time_without_upload

NoHistory == [picked |-> FALSE, sync |-> "none", step |-> "none", before |-> NoDir,
              dest |-> <<>>]

\* the listing that opens a poll cycle
UploadList ==
    /\ upload_pc = "list"
    /\ cycles < MaxCycles
    /\ datasets_ready' = ls(ready_for_upload_dir)
    /\ ever_ready' = (ever_ready \/ datasets_ready' # <<>>)
    /\ upload_pc' = "for"
    /\ UNCHANGED <<fnVars, convVars, fsVars, retain_datasets, sync_result, time_last_upload,
                   now, cycles, history, time_last_success>>

HasMarker(dir) == dir.exists /\ dir.hasMarker

\* an entry without upload-destination.txt: only line 518 runs
UploadSkip ==
    /\ upload_pc = "for" /\ datasets_ready # <<>>
    /\ ~HasMarker(ready_for_upload_dir[Head(datasets_ready)])
    /\ time_last_upload' = now
    /\ datasets_ready' = Tail(datasets_ready)
    /\ UNCHANGED <<fnVars, convVars, fsVars, retain_datasets, upload_pc, sync_result,
                   now, cycles, history, time_last_success, ever_ready>>

\* an entry with the marker: the marker is read and aws s3 sync is run, which
\* takes dur seconds and succeeds or fails (ok)
UploadSync(ok, dur) ==
    /\ upload_pc = "for" /\ datasets_ready # <<>>
    /\ LET dataset == Head(datasets_ready)
           dir == ready_for_upload_dir[dataset]
           read == first_line(dir.marker)
       IN  /\ HasMarker(dir)
           /\ IF read.ok
              THEN /\ upload_pc' = "dispose"
                   /\ sync_result' = IF ok THEN "ok" ELSE "failed"
                   /\ now' = now + dur
                   /\ history' = [history EXCEPT ![dataset] =
                        [picked |-> TRUE, sync |-> sync_result', step |-> "none",
                         before |-> dir,
                         dest |-> upload_destination \o <<"/">> \o read.line]]
              ELSE /\ upload_pc' = "crashed"
                   /\ UNCHANGED <<sync_result, now, history>>
    /\ UNCHANGED <<fnVars, convVars, fsVars, retain_datasets, datasets_ready, time_last_upload,
                   cycles, time_last_success, ever_ready>>

\* what follows the sync: mv to FAILED after a failed sync, mv to COMPLETE or
\* rm -fR after a successful one; cmd = FALSE: that command fails, which is
\* logged.  Then line 518
UploadDispose(cmd) ==
    /\ upload_pc = "dispose"
    /\ LET dataset == Head(datasets_ready)
           dir == ready_for_upload_dir[dataset]
           toFailed == mv(dir, failed_dir, dataset, cmd)
           toComplete == mv(dir, complete_dir, dataset, cmd)
           done == IF sync_result = "failed" THEN toFailed.ok
                   ELSE IF retain_datasets THEN toComplete.ok
                   ELSE cmd
       IN  /\ failed_dir' = IF sync_result = "failed" THEN toFailed.target ELSE failed_dir
           /\ complete_dir' = IF sync_result = "ok" /\ retain_datasets
                              THEN toComplete.target ELSE complete_dir
           /\ ready_for_upload_dir' =
                 IF done THEN [ready_for_upload_dir EXCEPT ![dataset] = NoDir]
                 ELSE ready_for_upload_dir
           /\ history' = [history EXCEPT ![dataset].step = IF done THEN "ok" ELSE "failed"]
           /\ time_last_success' = IF sync_result = "ok" /\ done THEN now
                                   ELSE time_last_success
    /\ time_last_upload' = now
    /\ datasets_ready' = Tail(datasets_ready)
    /\ sync_result' = "none"
    /\ upload_pc' = "for"
    /\ UNCHANGED <<fnVars, convVars, working_dir, retain_datasets, now, cycles, ever_ready>>

\* the end of a poll cycle: the sleep, which takes at least a second, and the
\* idle test
UploadSleep(extra) ==
    /\ upload_pc = "for" /\ datasets_ready = <<>>
    /\ now' = now + PollInterval + extra
    /\ cycles' = cycles + 1
    /\ upload_pc' = IF idle_expired(time_last_upload, now') THEN "exited" ELSE "list"
    /\ UNCHANGED <<fnVars, convVars, fsVars, retain_datasets, datasets_ready, sync_result,
                   time_last_upload, history, time_last_success, ever_ready>>

Durations == {0, LongDelay}

NextWatch ==
    \/ UploadList
    \/ UploadSkip
    \/ \E ok \in BOOLEAN, dur \in Durations : UploadSync(ok, dur)
    \/ \E cmd \in BOOLEAN : UploadDispose(cmd)
    \/ \E extra \in Durations : UploadSleep(extra)

\* a converted dataset directory as convert_cog leaves it in TO_UPLOAD
Converted(n) ==
    [exists |-> TRUE, yaml |-> 1,
     bands |-> [b \in BandNames |->
                  IF \E i \in 1..Len(BandsOf(subdatasets)) : BandsOf(subdatasets)[i] = b
                  THEN 1 ELSE 0],
     xml |-> FALSE, hasMarker |-> TRUE, marker |-> AwsDirOf[n].dir]

\* what the watcher may find under a name of TO_UPLOAD
EntryKinds == {"none", "nomarker", "emptymarker", "ready"}

Entry(n, kind) ==
    CASE kind = "none"        -> NoDir
      [] kind = "nomarker"    -> [Converted(n) EXCEPT !.hasMarker = FALSE, !.marker = <<>>]
      [] kind = "emptymarker" -> [Converted(n) EXCEPT !.marker = <<>>]
      [] OTHER                -> Converted(n)

\* the names of the entries TO_UPLOAD may hold when the watcher starts: the
\* two datasets of FileA
WatchNames == {NamesOf[FileA].names[i] : i \in 1..Len(NamesOf[FileA].names)}

\* no method of COGProductConfiguration is called on its own
NoCall == [fn |-> "", dir |-> <<>>, base |-> <<>>, template |-> <<>>, c |-> cfg,
           id |-> NoGroups]

ResolverIdle == call = NoCall /\ result = <<>>

\* convert_cog is not running
SchedIdle ==
    /\ filenames = <<>> /\ num_procs = 1 /\ futures = <<>>
    /\ sched = [pc |-> "off", cur |-> 0, k |-> 0]
    /\ runs = 1 /\ snapshot = [n \in AllPrefixes |-> NoDir]

\* the watcher starts on an output root whose TO_UPLOAD holds any entries,
\* with or without FAILED and COMPLETE
InitWatch ==
    /\ ResolverIdle
    /\ SchedIdle
    /\ working_dir = [n \in AllPrefixes |-> NoDir]
    /\ \E kind \in [WatchNames -> EntryKinds] :
          ready_for_upload_dir =
             [n \in AllPrefixes |-> IF n \in WatchNames THEN Entry(n, kind[n]) ELSE NoDir]
    /\ failed_dir \in {NoTarget, EmptyTarget}
    /\ complete_dir \in {NoTarget, EmptyTarget}
    /\ retain_datasets \in BOOLEAN
    /\ upload_pc = "list" /\ datasets_ready = <<>> /\ sync_result = "none"
    /\ time_last_upload = None /\ now = 0 /\ cycles = 0
    /\ history = [n \in AllPrefixes |-> NoHistory]
    /\ time_last_success = None /\ ever_ready = FALSE

SpecWatch == InitWatch /\ [][NextWatch]_vars

\* the watcher is not running
UploadIdle ==
    /\ retain_datasets = FALSE /\ upload_pc = "off" /\ datasets_ready = <<>>
    /\ sync_result = "none" /\ time_last_upload = None /\ now = 0 /\ cycles = 0
    /\ history = [n \in AllPrefixes |-> NoHistory]
    /\ time_last_success = None /\ ever_ready = FALSE

\* convert_cog on an output root with nothing in it, all files submitted
InitSched ==
    /\ ResolverIdle
    /\ filenames \in InputLists
    /\ num_procs \in {1, 2}
    /\ futures = [t \in 1..Len(filenames) |-> NewFuture]
    /\ sched = [pc |-> "wait", cur |-> 0, k |-> 0]
    /\ runs = 1 /\ snapshot = [n \in AllPrefixes |-> NoDir]
    /\ working_dir = [n \in AllPrefixes |-> NoDir]
    /\ ready_for_upload_dir = [n \in AllPrefixes |-> NoDir]
    /\ failed_dir = NoTarget /\ complete_dir = NoTarget
    /\ UploadIdle

Worker(t) ==
    \/ WorkerBegin(t)
    \/ WorkerMkdir(t)
    \/ WorkerYaml(t)
    \/ \E ok \in BOOLEAN : WorkerBand(t, ok)
    \/ WorkerClean(t)

NextSched ==
    \/ \E t \in Tasks : Worker(t)
    \/ \E t \in Tasks : SchedResult(t)
    \/ SchedMarker
    \/ SchedRename

SpecSched == InitSched /\ [][NextSched]_vars
(***************************************************************************)
(* The converter run again over the same input and destination            *)
(***************************************************************************)
\* netcdf_to_cog is called once more with the same file and dest_dir
Rerun ==
    /\ sched.pc = "off"
    /\ runs < MaxRuns
    /\ \A t \in Tasks : futures[t].state = "done"
    /\ snapshot' = working_dir
    /\ runs' = runs + 1
    /\ futures' = [t \in Tasks |-> NewFuture]
    /\ UNCHANGED <<fnVars, filenames, num_procs, sched, fsVars, upVars>>

InitRerun ==
    /\ ResolverIdle
    /\ filenames \in {<<FileA>>, <<FileD>>}
    /\ num_procs = 1
    /\ futures = [t \in 1..Len(filenames) |-> NewFuture]
    /\ sched = [pc |-> "off", cur |-> 0, k |-> 0]
    /\ runs = 1 /\ snapshot = [n \in AllPrefixes |-> NoDir]
    /\ working_dir = [n \in AllPrefixes |-> NoDir]
    /\ ready_for_upload_dir = [n \in AllPrefixes |-> NoDir]
    /\ failed_dir = NoTarget /\ complete_dir = NoTarget
    /\ UploadIdle

NextRerun ==
    \/ \E t \in Tasks : Worker(t)
    \/ Rerun

SpecRerun == InitRerun /\ [][NextRerun]_vars

(***************************************************************************)
(* convert_cog and upload at work on the same output root, convert_cog     *)
(* started again over the same file list once it has ended                 *)
(***************************************************************************)
\* convert_cog has ended, normally or by an exception, its pool has shut
\* down, and it is invoked again with the same arguments
Restart ==
    /\ sched.pc \in {"done", "raised"}
    /\ \A t \in Tasks : futures[t].state \in {"done", "raised"}
    /\ runs < MaxRuns
    /\ runs' = runs + 1
    /\ futures' = [t \in Tasks |-> NewFuture]
    /\ sched' = [pc |-> "wait", cur |-> 0, k |-> 0]
    /\ UNCHANGED <<fnVars, filenames, num_procs, snapshot, fsVars, upVars>>

\* a directory of another batch that TO_UPLOAD may hold, without marker, when
\* the two programs start
Stray == NamesOf[FileA].names[1]

InitBoth ==
    /\ ResolverIdle
    /\ filenames = <<FileD>>
    /\ num_procs = 1
    /\ futures = [t \in 1..Len(filenames) |-> NewFuture]
    /\ sched = [pc |-> "wait", cur |-> 0, k |-> 0]
    /\ runs = 1 /\ snapshot = [n \in AllPrefixes |-> NoDir]
    /\ working_dir = [n \in AllPrefixes |-> NoDir]
    /\ \E kind \in {"none", "nomarker"} :
          ready_for_upload_dir =
             [n \in AllPrefixes |-> IF n = Stray THEN Entry(n, kind) ELSE NoDir]
    /\ failed_dir \in {NoTarget, EmptyTarget}
    /\ complete_dir \in {NoTarget, EmptyTarget}
    /\ retain_datasets \in BOOLEAN
    /\ upload_pc = "list" /\ datasets_ready = <<>> /\ sync_result = "none"
    /\ time_last_upload = None /\ now = 0 /\ cycles = 0
    /\ history = [n \in AllPrefixes |-> NoHistory]
    /\ time_last_success = None /\ ever_ready = FALSE

\* the steps of both programs interleave; an external command and a sleep
\* take no longer than they must
NextBoth ==
    \/ \E t \in Tasks : Worker(t)
    \/ \E t \in Tasks : SchedResult(t)
    \/ SchedMarker
    \/ SchedRename
    \/ Restart
    \/ UploadList
    \/ UploadSkip
    \/ \E ok \in BOOLEAN : UploadSync(ok, 0)
    \/ \E cmd \in BOOLEAN : UploadDispose(cmd)
    \/ UploadSleep(0)

SpecBoth == InitBoth /\ [][NextBoth]_vars

(***************************************************************************)
(* convert_cog, with two workers, and upload at work on the same output    *)
(* root, over two files that hold the same dataset                         *)
(***************************************************************************)
\* a directory of another batch that TO_UPLOAD may hold, without marker
StrayRace == NamesOf[FileD].names[1]

InitRace ==
    /\ ResolverIdle
    /\ filenames = <<FileB, FileE>>
    /\ num_procs = 2
    /\ futures = [t \in 1..Len(filenames) |-> NewFuture]
    /\ sched = [pc |-> "wait", cur |-> 0, k |-> 0]
    /\ runs = 1 /\ snapshot = [n \in AllPrefixes |-> NoDir]
    /\ working_dir = [n \in AllPrefixes |-> NoDir]
    /\ \E kind \in {"none", "nomarker"} :
          ready_for_upload_dir =
             [n \in AllPrefixes |-> IF n = StrayRace THEN Entry(n, kind) ELSE NoDir]
    /\ failed_dir = EmptyTarget /\ complete_dir = EmptyTarget
    /\ retain_datasets \in BOOLEAN
    /\ upload_pc = "list" /\ datasets_ready = <<>> /\ sync_result = "none"
    /\ time_last_upload = None /\ now = 0 /\ cycles = 0
    /\ history = [n \in AllPrefixes |-> NoHistory]
    /\ time_last_success = None /\ ever_ready = FALSE

NextRace ==
    \/ \E t \in Tasks : Worker(t)
    \/ \E t \in Tasks : SchedResult(t)
    \/ SchedMarker
    \/ SchedRename
    \/ UploadList
    \/ UploadSkip
    \/ \E ok \in BOOLEAN : UploadSync(ok, 0)
    \/ \E cmd \in BOOLEAN : UploadDispose(cmd)
    \/ UploadSleep(0)

SpecRace == InitRace /\ [][NextRace]_vars

(***************************************************************************)
(* COGProductConfiguration on its own: _extract_x_y, _extract_x_y_time and *)
(* aws_dir called on names and prefixes of every shape                     *)
(***************************************************************************)
\* a product description of the shape of DEFAULT_CONFIG's flat product
cfgFlat ==
    [time_type     |-> "flat",
     src_template  |-> <<"S", "_", "{x}", "_", "{y}", ".", "n", "c">>,
     dest_template |-> <<"S", "_", "{x}", "_", "{y}">>,
     aws_dir       |-> <<"f", "s">>,
     bucket        |-> <<"s", "3", ":", "b">>]

\* a product description whose time_type is neither 'flat' nor 'timed'
cfgOther == [cfg EXCEPT !.time_type = "yearly"]

Configs == {cfg, cfgFlat, cfgOther}

\* tile indices as they stand in names
Coords == {<<"3">>, <<"-", "4", "0">>, <<"0">>, <<"1", "5">>}

\* time fields as they stand in names: empty, 3, 7, 8 and 14 digits
Stamps ==
    {<<>>, <<"2", "0", "1">>, <<"2", "0", "1", "8", "0", "1", "0">>,
     <<"2", "0", "1", "8", "0", "1", "0", "2">>,
     <<"2", "0", "1", "8", "0", "1", "0", "2", "0", "3", "0", "4", "0", "5">>}

\* the identities (x, y, time) names are made of
Identities == [x : Coords, y : Coords, time : Stamps]

\* the directory part of a path
Dirs == {<<>>, <<"d", "/">>, <<"a", "/", "b", "/">>}

\* the templates names are matched against
Templates == {cfg.src_template, cfg.dest_template, cfgFlat.src_template}

\* the shapes of the base names: source files of the timed product (version
\* 1, and with another character for the dot), its prefixes, prefixes cut
\* after y, source files of the flat product, and names of another product
Shapes ==
    {<<"T", "_", "{x}", "_", "{y}", "_", "{time}", "_", "v", "1", ".", "n", "c">>,
     <<"T", "_", "{x}", "_", "{y}", "_", "{time}", "_", "v", "1", "n", "n", "c">>,
     <<"T", "_", "{x}", "_", "{y}", "_", "{time}">>,
     <<"T", "_", "{x}", "_", "{y}">>,
     <<"S", "_", "{x}", "_", "{y}", ".", "n", "c">>,
     <<"X", "_", "{x}", ".", "n", "c">>}

Bases == {Format(shape, id) : shape \in Shapes, id \in Identities}

\* what the called method returns: ok = FALSE stands for the RuntimeError,
\* which leaves no value behind
ResultOf(cl) ==
    LET item == cl.dir \o cl.base
        none == [ok |-> FALSE, x |-> <<>>, y |-> <<>>, time |-> <<>>, dir |-> <<>>]
    IN  IF cl.fn = "aws_dir"
        THEN LET r == aws_dir(cl.c, item)
             IN  IF r.ok THEN [none EXCEPT !.ok = TRUE, !.dir = r.dir] ELSE none
        ELSE LET r == IF cl.fn = "_extract_x_y" THEN extract_x_y(item, cl.template)
                      ELSE extract_x_y_time(item, cl.template)
             IN  IF r.ok THEN [none EXCEPT !.ok = TRUE, !.x = r.x, !.y = r.y,
                                           !.time = r.time]
                 ELSE none

\* _extract_x_y or _extract_x_y_time is called on a path and a template
CallExtract(fn, d, b, template) ==
    /\ call = NoCall
    /\ call' = [NoCall EXCEPT !.fn = fn, !.dir = d, !.base = b, !.template = template]
    /\ result' = <<ResultOf(call')>>
    /\ UNCHANGED <<convVars, fsVars, upVars>>

\* aws_dir of product description c is called on the prefix made of an
\* identity
CallAwsDir(c, id) ==
    /\ call = NoCall
    /\ call' = [NoCall EXCEPT !.fn = "aws_dir", !.base = Format(c.dest_template, id),
                              !.template = c.dest_template, !.c = c, !.id = id]
    /\ result' = <<ResultOf(call')>>
    /\ UNCHANGED <<convVars, fsVars, upVars>>

\* the same method is called again with the same arguments
CallAgain ==
    /\ call # NoCall
    /\ Len(result) < MaxCalls
    /\ result' = Append(result, ResultOf(call))
    /\ UNCHANGED <<convVars, fsVars, upVars, call>>

InitResolve ==
    /\ ResolverIdle
    /\ SchedIdle
    /\ UploadIdle
    /\ working_dir = [n \in AllPrefixes |-> NoDir]
    /\ ready_for_upload_dir = [n \in AllPrefixes |-> NoDir]
    /\ failed_dir = NoTarget /\ complete_dir = NoTarget

NextResolve ==
    \/ \E fn \in {"_extract_x_y", "_extract_x_y_time"}, d \in Dirs, b \in Bases,
          template \in Templates : CallExtract(fn, d, b, template)
    \/ \E c \in Configs, id \in Identities : CallAwsDir(c, id)
    \/ CallAgain

SpecResolve == InitResolve /\ [][NextResolve]_vars

(***************************************************************************)
(* Properties                                                              *)
(***************************************************************************)
Bands == {BandsOf(subdatasets)[i] : i \in 1..Len(BandsOf(subdatasets))}

\* every worker has returned or raised
WorkersFinished == \A t \in Tasks : futures[t].state \in {"done", "raised"}

\* dataset d is under the target directory: as an entry of it, or as the
\* directory itself
Under(target, d) ==
    target.exists /\ (target.entries[d].exists \/ target.ownName = d)

\* the watcher has finished processing dataset d (sync and the step after it)
Processed(d) == history[d].picked /\ history[d].step # "none"

\* C1: every dataset directory in TO_UPLOAD holds its marker, and a worker
\* that has returned attempted every band (subdatasets[:-1]) of that dataset;
\* TO_UPLOAD starts empty, so each directory in it was renamed there by
\* convert_cog
C1_MarkerAndBandsBeforeRename ==
    \A p \in AllPrefixes :
        ready_for_upload_dir[p].exists =>
            /\ ready_for_upload_dir[p].hasMarker
            /\ \E t \in Tasks :
                  /\ futures[t].state = "done"
                  /\ \A b \in Bands : <<p, b>> \in futures[t].tried

\* a dataset reached TO_UPLOAD with its marker although one band failed
C1_Witness ==
    \E p \in AllPrefixes :
        /\ ready_for_upload_dir[p].exists /\ ready_for_upload_dir[p].hasMarker
        /\ ready_for_upload_dir[p].bands["BS"] = 0
        /\ ready_for_upload_dir[p].bands["PV"] = 1

\* C2: a dataset the watcher picked up and finished processing is no longer
\* in TO_UPLOAD, and is not under both COMPLETE and FAILED
C2_OneTerminalDisposition ==
    \A d \in AllPrefixes :
        Processed(d) =>
            /\ ~ready_for_upload_dir[d].exists
            /\ ~(Under(complete_dir, d) /\ Under(failed_dir, d))

\* C3: once a dataset has been synced and disposed of, the watcher does not
\* pass an idle test taken more than the idle threshold plus one poll
\* interval after the last such dataset
C3_ExitAfterLastSuccess ==
    (upload_pc = "list" /\ time_last_success # None) =>
        now - time_last_success <= max_wait_time_without_upload + PollInterval

\* C4: while every listing so far was empty time_last_upload is unset, and
\* while it is unset the watcher has not left its loop
C4_NoExitBeforeAnyReady ==
    /\ ~ever_ready => time_last_upload = None
    /\ time_last_upload = None => upload_pc # "exited"

\* the watcher polls on, more than the idle threshold plus a poll interval
\* after its start, having listed nothing
C4_Witness ==
    /\ ~ever_ready /\ cycles >= 2 /\ upload_pc = "list"
    /\ now > max_wait_time_without_upload + PollInterval

\* C5: after the second run of netcdf_to_cog every document and band file
\* the first run left is as the first run left it
C5_RerunRegeneratesNothing ==
    (runs >= 2 /\ WorkersFinished) =>
        \A p \in AllPrefixes :
            /\ snapshot[p].yaml > 0 => working_dir[p].yaml = snapshot[p].yaml
            /\ \A b \in Bands :
                  snapshot[p].bands[b] > 0 => working_dir[p].bands[b] = snapshot[p].bands[b]

\* C6: when the workers have finished and the result loop has ended, every
\* dataset of every file whose worker returned is in TO_UPLOAD with its marker
C6_BatchSurvivesFailure ==
    (WorkersFinished /\ sched.pc \in {"done", "raised"}) =>
        \A t \in Tasks :
            futures[t].state = "done" =>
                \A i \in 1..Len(futures[t].generated) :
                    /\ ready_for_upload_dir[futures[t].generated[i]].exists
                    /\ ready_for_upload_dir[futures[t].generated[i]].hasMarker

\* C7: a dataset whose sync succeeded and whose move to COMPLETE or delete
\* failed is under FAILED
C7_FailedStepMovesToFailed ==
    \A d \in AllPrefixes :
        (history[d].sync = "ok" /\ history[d].step = "failed") => Under(failed_dir, d)

\* C8: a dataset whose sync failed, once the mv that follows has succeeded,
\* is the entry FAILED/<dataset name>, as it was picked up, and is neither in
\* TO_UPLOAD nor under COMPLETE
C8_FailedSyncUnderFailedByName ==
    \A d \in AllPrefixes :
        (history[d].sync = "failed" /\ history[d].step = "ok") =>
            /\ failed_dir.exists
            /\ failed_dir.entries[d] = history[d].before
            /\ ~ready_for_upload_dir[d].exists
            /\ ~Under(complete_dir, d)

\* C9: a dataset whose sync and following step succeeded is the entry
\* COMPLETE/<dataset name> when datasets are retained and nowhere otherwise;
\* and a dataset under COMPLETE, or gone from the output root, was synced
C9_SuccessDisposition ==
    \A d \in WatchNames :
        /\ (history[d].sync = "ok" /\ history[d].step = "ok") =>
              /\ ~ready_for_upload_dir[d].exists
              /\ ~Under(failed_dir, d)
              /\ IF retain_datasets
                 THEN complete_dir.exists /\ complete_dir.entries[d] = history[d].before
                 ELSE ~Under(complete_dir, d)
        /\ Under(complete_dir, d) => history[d].sync = "ok"
        /\ (history[d].picked /\ ~ready_for_upload_dir[d].exists
            /\ ~Under(complete_dir, d) /\ ~Under(failed_dir, d)) => history[d].sync = "ok"

\* C10: the watcher never leaves its loop through an error
C10_OnlyIdleExit == upload_pc # "crashed"

\* C11: the marker of every dataset in TO_UPLOAD holds the fully-qualified
\* destination, bucket + '/' + aws_dir + '/' + suffix, the value of
\* aws_destination for the dataset's prefix
C11_MarkerIsAwsDestination ==
    \A p \in AllPrefixes :
        (ready_for_upload_dir[p].exists /\ ready_for_upload_dir[p].hasMarker) =>
            ready_for_upload_dir[p].marker = aws_destination(cfg, p).dir

\* C12: the remote path handed to the sync tool for a dataset is the content
\* of its marker as it was when the dataset was picked up, with nothing
\* prepended or appended
C12_SyncDestinationIsMarker ==
    \A d \in AllPrefixes :
        history[d].picked => history[d].dest = history[d].before.marker

\* two futures of the batch resolve to a common prefix
SamePrefix(s, t) ==
    /\ s # t /\ NamesOf[filenames[s]].ok /\ NamesOf[filenames[t]].ok
    /\ \E i \in 1..Len(prefix_names(s)), j \in 1..Len(prefix_names(t)) :
          prefix_names(s)[i] = prefix_names(t)[j]

\* C14: when two input files resolve to the same prefix no worker raises, the
\* result loop ends without an error (no marker write and no rename fails),
\* and once the loop has ended every shared prefix is a dataset directory of
\* TO_UPLOAD and of nothing else
C14_SamePrefixMerges ==
    (\E s, t \in Tasks : SamePrefix(s, t)) =>
        /\ sched.pc # "raised"
        /\ \A t \in Tasks : futures[t].state # "raised"
        /\ sched.pc = "done" =>
              \A s, t \in Tasks : \A i \in 1..Len(prefix_names(s)) :
                  (SamePrefix(s, t) /\
                   \E j \in 1..Len(prefix_names(t)) :
                       prefix_names(s)[i] = prefix_names(t)[j]) =>
                      /\ ready_for_upload_dir[prefix_names(s)[i]].exists
                      /\ ~working_dir[prefix_names(s)[i]].exists

\* every input file matches the source template and no two share a prefix
CleanBatch ==
    /\ \A t \in Tasks : NamesOf[filenames[t]].ok
    /\ \A s, t \in Tasks : ~SamePrefix(s, t)

\* C18: a failed band stops nothing but itself: a worker that is past the
\* bands of a dataset attempted every band of it, failed ones or not, after
\* the metadata document was written; with input that matches the template
\* and shares no prefix neither a worker nor the result loop raises whatever
\* bands fail; and when the result loop has ended every dataset a worker
\* returned is in TO_UPLOAD with its metadata document and its marker
C18_BandFailureIsLocal ==
    /\ \A t \in Tasks : \A p \in AllPrefixes :
          ((\E i \in 1..Len(futures[t].generated) : futures[t].generated[i] = p)
           \/ (futures[t].state = "running" /\ futures[t].step = "clean"
               /\ CurPrefix(t) = p)) =>
              \A b \in Bands : <<p, b>> \in futures[t].tried
    /\ \A t \in Tasks : \A pb \in futures[t].failed :
          (working_dir[pb[1]].exists /\ futures[t].state = "running"
           /\ CurPrefix(t) = pb[1]) => working_dir[pb[1]].yaml >= 1
    /\ CleanBatch =>
          (sched.pc # "raised" /\ \A t \in Tasks : futures[t].state # "raised")
    /\ sched.pc = "done" =>
          \A t \in Tasks : \A i \in 1..Len(futures[t].generated) :
              LET d == ready_for_upload_dir[futures[t].generated[i]] IN
                 d.exists /\ d.yaml >= 1 /\ d.hasMarker

\* the result loop has ended and a dataset one of whose bands failed is in
\* TO_UPLOAD with its metadata document, its marker and its other band
C18_Witness ==
    /\ sched.pc = "done"
    /\ \E t \in Tasks : \E pb \in futures[t].failed : \E b \in Bands :
          LET d == ready_for_upload_dir[pb[1]] IN
             /\ b # pb[2] /\ <<pb[1], b>> \notin futures[t].failed
             /\ d.exists /\ d.yaml = 1 /\ d.hasMarker
             /\ d.bands[pb[2]] = 0 /\ d.bands[b] = 1

\* C20: the watcher's step on a TO_UPLOAD entry without marker leaves the
\* entry as it is and where it is, starts no sync of it, and leaves the time
\* of the last processed dataset, from which the idle timer runs, as it was
C20_MarkerlessEntryUntouched ==
    [][(upload_pc = "for" /\ datasets_ready # <<>>
        /\ ready_for_upload_dir[Head(datasets_ready)].exists
        /\ ~ready_for_upload_dir[Head(datasets_ready)].hasMarker) =>
           /\ ready_for_upload_dir' = ready_for_upload_dir
           /\ failed_dir' = failed_dir /\ complete_dir' = complete_dir
           /\ history' = history
           /\ time_last_upload' = time_last_upload]_vars

RECURSIVE MatchEnds(_, _, _)
\* the positions of s at which some match of the pattern elements re[1..i],
\* started at the beginning of s, ends
MatchEnds(re, s, i) ==
    IF i = 0 THEN {0}
    ELSE LET prev == MatchEnds(re, s, i - 1)
             e == re[i]
         IN  CASE e.kind = "lit" ->
                    {j + 1 : j \in {k \in prev : k < Len(s) /\ s[k + 1] = e.c}}
               [] e.kind = "any" ->
                    {j + 1 : j \in {k \in prev : k < Len(s)}}
               [] e.kind = "digits" ->
                    UNION {{j + n : n \in 0..DigitRun(s, j + 1)} : j \in prev}
               [] OTHER ->
                    UNION {{j + n : n \in 0..DigitRun(s, j + 1)}
                           \cup (IF j < Len(s) /\ s[j + 1] = "-"
                                 THEN {j + 1 + n : n \in 0..DigitRun(s, j + 2)}
                                 ELSE {}) : j \in prev}

\* the pattern compiled for the method of a call matches a name
PatternMatches(cl, name) ==
    LET re == IF cl.fn = "_extract_x_y" THEN PatternXY(cl.template)
              ELSE PatternXYTime(cl.template)
    IN  MatchEnds(re, name, Len(re)) # {}

\* the template of a call names every field its method returns
NamesFields(cl) ==
    \A f \in IF cl.fn = "_extract_x_y" THEN {"{x}", "{y}"} ELSE {"{x}", "{y}", "{time}"} :
        \E i \in 1..Len(cl.template) : cl.template[i] = f

\* C15: the resolver depends on the base name and the template only: a call
\* returns what a call on the base name without its directory returns, and
\* every repetition returns the same; it returns an identity when the
\* compiled pattern matches the base name (and the template names the
\* fields), and for a base name the pattern does not match it raises and
\* leaves no part of an identity
C15_ResolverIsPure ==
    call.fn \in {"_extract_x_y", "_extract_x_y_time"} =>
        /\ \A i \in 1..Len(result) : result[i] = result[1]
        /\ result[1] = ResultOf([call EXCEPT !.dir = <<>>])
        /\ result[1].ok <=> (PatternMatches(call, call.base) /\ NamesFields(call))
        /\ ~result[1].ok =>
              (result[1].x = <<>> /\ result[1].y = <<>> /\ result[1].time = <<>>)

\* _extract_x_y_time was called twice on a/b/T_3_-40_20180102_v1.nc and
\* returned x = 3 and y = -40
C15_Witness ==
    /\ call.fn = "_extract_x_y_time" /\ call.dir = <<"a", "/", "b", "/">>
    /\ call.template = cfg.src_template
    /\ Len(result) >= 2 /\ result[2].ok
    /\ result[2].x = <<"3">> /\ result[2].y = <<"-", "4", "0">>
    /\ result[2].time = <<"2", "0", "1", "8", "0", "1", "0", "2">>

\* _extract_x_y was called on a name its pattern does not match and raised
C15_WitnessMismatch ==
    /\ call.fn = "_extract_x_y" /\ call.dir # <<>>
    /\ ~PatternMatches(call, call.base) /\ ~result[1].ok

\* C16: aws_dir of a timed product, on the prefix of an identity whose time
\* has 8 digits or more, returns x_{x}/y_{y}/{year}/{month}/{day} with the
\* year, month and day the 1st to 4th, 5th to 6th and 7th to 8th character of
\* the time and x and y as they are, sign included; aws_dir of a flat product
\* returns x_{x}/y_{y}
C16_AwsDirLayout ==
    call.fn = "aws_dir" =>
        LET id == call.id
            tile == <<"x", "_">> \o id.x \o <<"/", "y", "_">> \o id.y
        IN  /\ (call.c.time_type = "timed" /\ Len(id.time) >= 8) =>
                  /\ result[1].ok
                  /\ result[1].dir =
                        tile \o <<"/">> \o SubSeq(id.time, 1, 4) \o <<"/">>
                        \o SubSeq(id.time, 5, 6) \o <<"/">> \o SubSeq(id.time, 7, 8)
            /\ call.c.time_type = "flat" =>
                  (result[1].ok /\ result[1].dir = tile)

\* aws_dir of the timed product was called on T_3_-40_20180102030405 and
\* returned x_3/y_-40/2018/01/02
C16_Witness ==
    /\ call.fn = "aws_dir" /\ call.c.time_type = "timed"
    /\ call.id = [x |-> <<"3">>, y |-> <<"-", "4", "0">>,
                  time |-> <<"2", "0", "1", "8", "0", "1", "0", "2",
                             "0", "3", "0", "4", "0", "5">>]
    /\ result # <<>>
    /\ result[1].dir = <<"x", "_", "3", "/", "y", "_", "-", "4", "0", "/",
                         "2", "0", "1", "8", "/", "0", "1", "/", "0", "2">>

\* C17: aws_dir of a timed product raises on a prefix whose time field is
\* empty or shorter than 8 digits, so that no returned suffix has an empty or
\* truncated year, month or day; and aws_dir raises when the time_type is
\* neither 'flat' nor 'timed'
C17_AwsDirRejectsShortTime ==
    call.fn = "aws_dir" =>
        /\ (call.c.time_type = "timed" /\ Len(call.id.time) < 8) => ~result[1].ok
        /\ call.c.time_type \notin {"flat", "timed"} => ~result[1].ok

\* C19: every prefix exists under at most one of WORKING, TO_UPLOAD, FAILED
\* and COMPLETE
C19_StateDirectoriesPartition ==
    \A p \in AllPrefixes :
        Cardinality({place \in {"WORKING", "TO_UPLOAD", "FAILED", "COMPLETE"} :
            CASE place = "WORKING"   -> working_dir[p].exists
              [] place = "TO_UPLOAD" -> ready_for_upload_dir[p].exists
              [] place = "FAILED"    -> Under(failed_dir, p)
              [] OTHER               -> Under(complete_dir, p)}) <= 1

\* prefix p has been in WORKING and has left it: it is in TO_UPLOAD, under
\* FAILED or COMPLETE, or the watcher has picked it up
LeftWorking(p) ==
    \/ ready_for_upload_dir[p].exists
    \/ Under(failed_dir, p) \/ Under(complete_dir, p)
    \/ history[p].picked

\* the directory of dataset p under a target is after a step as it was before
KeptUnder(before, after, p) ==
    IF before.ownName = p THEN after = before
    ELSE after.entries[p] = before.entries[p]

\* C13: the transitions of a dataset are one-way.  In every step, for every
\* prefix: a dataset that has left WORKING does not appear in WORKING again;
\* a dataset under FAILED or COMPLETE stays there unchanged and one that is
\* there or was deleted is not synced again; and a dataset enters TO_UPLOAD
\* only from WORKING, leaves WORKING only for TO_UPLOAD, and enters FAILED or
\* COMPLETE only from TO_UPLOAD
C13_OneWayTransitions ==
    [][\A p \in AllPrefixes :
        /\ (~working_dir[p].exists /\ LeftWorking(p)) => ~working_dir'[p].exists
        /\ Under(failed_dir, p) => KeptUnder(failed_dir, failed_dir', p)
        /\ Under(complete_dir, p) => KeptUnder(complete_dir, complete_dir', p)
        /\ (history[p].picked /\ ~ready_for_upload_dir[p].exists
            /\ ~working_dir[p].exists) => history'[p] = history[p]
        /\ (~ready_for_upload_dir[p].exists /\ ready_for_upload_dir'[p].exists) =>
              (working_dir[p].exists /\ ~working_dir'[p].exists)
        /\ (working_dir[p].exists /\ ~working_dir'[p].exists) =>
              ready_for_upload_dir'[p].exists
        /\ (~Under(failed_dir, p) /\ Under(failed_dir', p)) =>
              (ready_for_upload_dir[p].exists /\ ~ready_for_upload_dir'[p].exists)
        /\ (~Under(complete_dir, p) /\ Under(complete_dir', p)) =>
              (ready_for_upload_dir[p].exists /\ ~ready_for_upload_dir'[p].exists)
      ]_vars

\* C21: a dataset directory the watcher syncs is complete and quiescent.  In
\* every step: a directory that is in TO_UPLOAD with its marker is, as long
\* as it stays there, left as it is (no worker writes into it); and when the
\* watcher has synced a directory, the directory held its metadata document
\* and its marker and no worker had a write into it under way
C21_SyncedDirectoryQuiescent ==
    [][\A p \in AllPrefixes :
        /\ (ready_for_upload_dir[p].exists /\ ready_for_upload_dir[p].hasMarker
            /\ ready_for_upload_dir'[p].exists) =>
              ready_for_upload_dir'[p] = ready_for_upload_dir[p]
        /\ (history'[p] # history[p] /\ history'[p].picked
            /\ history'[p].step = "none") =>
              /\ history'[p].before.yaml >= 1
              /\ history'[p].before.hasMarker
              /\ \A t \in Tasks : ~(futures[t].inflight /\ CurPrefix(t) = p)
      ]_vars

=============================================================================
